---- MODULE Spec2Model ----
(***************************************************************************)
(* Model of the batched S3 delete / restore runs:                          *)
(*   src/delete_s3_objects.py   DeleteObjects  (plain-key mode)            *)
(*   src/restore_s3_objects.py  RestoreObjects (key,versionId mode)        *)
(*   src/aws_s3/delete.py       DeleteS3Objects (the remote client)        *)
(* A file is a sequence of characters; a line is a sequence of characters  *)
(* that keeps its terminating "\n", as Python's file iteration yields it.  *)
(***************************************************************************)
EXTENDS Integers, Sequences, FiniteSets

\* ---------------------------------------------------------------- bounds
MaxFileLen == 5        \* characters in the data file
MaxBatch == 3          \* small batch sizes tried: -1 .. MaxBatch
MaxFairFileLen == 3    \* characters in the data file, for the liveness check

\* ------------------------------------------------------ program constants
MaxBatchSize == 1000   \* check_batch_size: "if batch_size > 1000"
DefaultBatchSize == 1000

None == "None"      \* None, for the string-valued fields
Unset == <<>>        \* None, for self.batch_size and the response; <<v>> is v
NL == "\n"
Comma == ","
Chars == {"a", Comma, NL}

Modes == {"delete", "restore"}
Entries == {"cli", "caller", "api"}
Buckets == {"", "bkt"}
Paths == {"", "keys.txt", "missing.txt"}
BatchSizes == (-1 .. MaxBatch) \cup {MaxBatchSize, MaxBatchSize + 1}
Files == UNION {[1 .. k -> Chars] : k \in 0 .. MaxFileLen}
ListShapes == {"absent", "empty", "items"}
Responses == [Deleted : ListShapes, Errors : ListShapes]

VARIABLES
    mode,             \* which program runs: delete_s3_objects or restore_s3_objects
    fs,               \* content of the one existing file, "keys.txt"
    entry,            \* how the run was started
    bucket,           \* caller's parameter bucket (args.bucket on the command line)
    data_file,        \* caller's parameter data_file (args.filename)
    batch_size,       \* caller's parameter batch_size (args.batch_size)
    self_bucket,      \* self.bucket
    self_data_file,   \* self.data_file
    self_batch_size,  \* self.batch_size
    pc,               \* position of the run
    raised,           \* exception that left the entry point, or None
    opened,           \* open(data_file) succeeded
    pos,              \* characters of f consumed so far
    group,            \* the raw lines of the last islice(f, batch_size)
    next_lines,       \* next_lines of the current loop iteration
    batches,          \* every non-empty next_lines so far, in order
    calls,            \* remote delete_objects calls issued, in order
    response,         \* response of the call being handled, or None
    flog,             \* entries of the "file" logger
    slog              \* entries of the "stdout" logger

vars == <<mode, fs, entry, bucket, data_file, batch_size, self_bucket,
          self_data_file, self_batch_size, pc, raised, opened, pos, group,
          next_lines, batches, calls, response, flog, slog>>

\* ------------------------------------------------------------ file system
Exists(path) == path = "keys.txt"

\* index of the last character of the line that starts at index i
RECURSIVE LineEnd(_, _)
LineEnd(f, i) ==
    IF i >= Len(f) \/ f[i] = NL THEN i ELSE LineEnd(f, i + 1)

\* next(f): the line at offset p, terminator included; <<>> at end of file
readline(f, p) ==
    IF p >= Len(f) THEN <<>> ELSE SubSeq(f, p + 1, LineEnd(f, p + 1))

\* islice as a reader that takes a blank line for the end of the file
RECURSIVE islice_blank_is_eof(_, _, _)
islice_blank_is_eof(f, p, n) ==
    IF n <= 0 \/ p >= Len(f) \/ readline(f, p) = <<NL>>
    THEN <<>>
    ELSE LET l == readline(f, p)
         IN  <<l>> \o islice_blank_is_eof(f, p + Len(l), n - 1)

\* the indexes at which a line of f ends, in order (written without
\* recursion over the lines, so that files of a thousand lines can be read)
line_ends(f) ==
    LET IsEnd(i) == f[i] = NL \/ i = Len(f)
    IN  SelectSeq([i \in 1 .. Len(f) |-> i], IsEnd)

\* list(islice(f, n)) from offset p: up to n lines, each as next(f) gives it
islice(f, p, n) ==
    IF n <= 0 \/ p >= Len(f)
    THEN <<>>
    ELSE LET ends == line_ends(f)
             IsRead(e) == e <= p
             k0 == Len(SelectSeq(ends, IsRead))
             left == Len(ends) - k0
             cnt == IF n <= left THEN n ELSE left
         IN  [k \in 1 .. cnt |->
                 readline(f, IF k = 1 THEN p ELSE ends[k0 + k - 1])]

\* characters consumed by reading the lines ls
RECURSIVE TotalLen(_)
TotalLen(ls) ==
    IF ls = <<>>
    THEN 0
    ELSE IF Len(ls) = 1
    THEN Len(ls[1])
    ELSE LET h == Len(ls) \div 2
         IN  TotalLen(SubSeq(ls, 1, h)) + TotalLen(SubSeq(ls, h + 1, Len(ls)))

\* --------------------------------------------------------- string helpers
\* s.replace("\n", "")
IsNotNL(c) == c # NL
replace_nl(s) == SelectSeq(s, IsNotNL)

\* s.split(","): the fields between the commas
RECURSIVE split(_)
split(s) ==
    IF s = <<>>
    THEN << <<>> >>
    ELSE LET rest == split(Tail(s))
         IN  IF Head(s) = Comma
             THEN << <<>> >> \o rest
             ELSE << <<Head(s)>> \o Head(rest) >> \o Tail(rest)

\* ------------------------------------------------------------ Record Parser
\* delete mode: [s.replace("\n", "") for s in lines]
\* parse_keys with blank lines filtered out
IsNotBlank(k) == k # <<>>
parse_keys_skip_blank(lines) ==
    SelectSeq([i \in 1 .. Len(lines) |-> replace_nl(lines[i])], IsNotBlank)

parse_keys(lines) == [i \in 1 .. Len(lines) |-> replace_nl(lines[i])]

\* parse_pairs that gives up at the first line without exactly two fields
RECURSIVE parse_pairs_stop_at_malformed(_)
parse_pairs_stop_at_malformed(lines) ==
    IF lines = <<>> \/ Len(split(Head(lines))) # 2
    THEN <<>>
    ELSE << [Key |-> split(Head(lines))[1],
             VersionId |-> replace_nl(split(Head(lines))[2])] >>
         \o parse_pairs_stop_at_malformed(Tail(lines))

\* restore mode: the {"Key", "VersionId"} comprehension over the lines that
\* split into exactly two fields
TwoFields(s) == Len(split(s)) = 2
parse_pairs(lines) ==
    LET keep == SelectSeq(lines, TwoFields)
    IN  [i \in 1 .. Len(keep) |->
            [Key |-> split(keep[i])[1],
             VersionId |-> replace_nl(split(keep[i])[2])]]

parse(m, lines) ==
    IF m = "delete" THEN parse_keys(lines) ELSE parse_pairs(lines)

\* ------------------------------------------------------ Bulk Mutation Client
\* key_objects with "if key" added to the comprehension
RECURSIVE key_objects_skip_empty(_)
key_objects_skip_empty(object_keys) ==
    IF object_keys = <<>>
    THEN <<>>
    ELSE (IF Head(object_keys) = <<>>
          THEN <<>> ELSE << [Key |-> Head(object_keys)] >>)
         \o key_objects_skip_empty(Tail(object_keys))

\* delete_objects: Delete={"Objects": [{"Key": key} for key in object_keys]}
key_objects(object_keys) ==
    [i \in 1 .. Len(object_keys) |-> [Key |-> object_keys[i]]]

\* delete_object_versions: the Objects comprehension, "if len(VersionId) > 0"
HasVersion(obj) == Len(obj.VersionId) > 0
\* version_objects without the "if len(VersionId) > 0" filter
version_objects_unfiltered(objects) == objects

version_objects(objects) == SelectSeq(objects, HasVersion)

request_objects(m, targets) ==
    IF m = "delete" THEN key_objects(targets) ELSE version_objects(targets)

\* ------------------------------------------------------------------ logging
LogEntry(level, msg) == [level |-> level, msg |-> msg]

\* the four logger.info lines written right after open() succeeded
header_log ==
    << LogEntry("INFO", "Bucket"), LogEntry("INFO", "Source file"),
       LogEntry("INFO", "Batch size"), LogEntry("INFO", "Starting") >>

\* response_log with the "Errors" branch lost
response_log_no_warning(r) ==
    IF r.Deleted # "absent"
    THEN << LogEntry("INFO", "Deleted objects") >> ELSE <<>>

\* response_log testing the lists for content instead of the keys for presence
response_log_nonempty_only(r) ==
    (IF r.Deleted = "items"
     THEN << LogEntry("INFO", "Deleted objects") >> ELSE <<>>)
    \o
    (IF r.Errors = "items"
     THEN << LogEntry("WARNING", "Could not delete") >> ELSE <<>>)

\* what the client logs for a response: one info entry when "Deleted" is a
\* key of the response, one warning entry when "Errors" is
response_log(r) ==
    (IF r.Deleted # "absent"
     THEN << LogEntry("INFO", "Deleted objects") >> ELSE <<>>)
    \o
    (IF r.Errors # "absent"
     THEN << LogEntry("WARNING", "Could not delete") >> ELSE <<>>)

\* the closing entry lost
complete_log_missing == <<>>

\* logger.info("Deletion complete.") / slogger.info("Deletion complete."):
\* the entry each of the two loggers gets after the loop
complete_log == << LogEntry("INFO", "complete") >>

\* the missing file reported with logger.warning
not_found_log_warning == << LogEntry("WARNING", "not found") >>

\* logger.error("File %s was not found!", data_file)
not_found_log == << LogEntry("ERROR", "not found") >>

\* true when the config checks of caller let the run through
data_file_rejected(sd, d) == sd = None /\ d = ""
bucket_rejected(sb, b) == sb = None /\ b = ""

\* check_batch_size of the command line
check_batch_size_rejects(n) == n > MaxBatchSize

\* ------------------------------------------------------------------- state
\* a fresh instance, before any entry point is called; the data file is one
\* of files
InitOver(files) ==
    /\ mode \in Modes
    /\ fs \in files
    /\ entry = None
    /\ bucket = ""
    /\ data_file = ""
    /\ batch_size = DefaultBatchSize
    /\ self_bucket = None
    /\ self_data_file = None
    /\ self_batch_size = Unset
    /\ pc = "Start"
    /\ raised = None
    /\ opened = FALSE
    /\ pos = 0
    /\ group = <<>>
    /\ next_lines = <<>>
    /\ batches = <<>>
    /\ calls = <<>>
    /\ response = Unset
    /\ flog = <<>>
    /\ slog = <<>>

Init == InitOver(Files)

loopVars == <<pos, group, next_lines, batches, calls, response>>
inputVars == <<mode, fs>>

\* caller(bucket=b, data_file=d, batch_size=n) up to the top of "while True",
\* on an instance whose fields are sb, sd, sn; the loop's own state is set
\* by the entry point that uses this
CallerBody(b, d, n, sb, sd, sn) ==
    /\ bucket' = b
    /\ data_file' = d
    /\ batch_size' = n
    /\ UNCHANGED inputVars
    /\ IF data_file_rejected(sd, d)
       THEN /\ self_data_file' = d
            /\ self_bucket' = sb
            /\ self_batch_size' = sn
            /\ raised' = "ValueError"
            /\ pc' = "Failed"
            /\ opened' = FALSE
            /\ UNCHANGED <<flog, slog>>
       ELSE IF bucket_rejected(sb, b)
       THEN /\ self_data_file' = (IF sd = None THEN d ELSE sd)
            /\ self_bucket' = b
            /\ self_batch_size' = sn
            /\ raised' = "ValueError"
            /\ pc' = "Failed"
            /\ opened' = FALSE
            /\ UNCHANGED <<flog, slog>>
       ELSE /\ self_data_file' = (IF sd = None THEN d ELSE sd)
            /\ self_bucket' = (IF sb = None THEN b ELSE sb)
            /\ self_batch_size' = (IF sn = Unset THEN <<n>> ELSE sn)
            /\ IF Exists(d)
               THEN /\ opened' = TRUE
                    /\ slog' = slog \o << LogEntry("INFO", "Logging to") >>
                    /\ flog' = flog \o header_log
                    /\ raised' = None
                    /\ pc' = "Loop"
               ELSE /\ opened' = FALSE
                    /\ flog' = flog \o not_found_log
                    /\ raised' = "FileNotFoundError"
                    /\ pc' = "Failed"
                    /\ UNCHANGED slog

\* __main__: parse the command line, build a fresh instance, call caller;
\* the batch size is drawn from sizes
MainOver(sizes) ==
    /\ pc = "Start"
    /\ \E b \in Buckets, d \in Paths, n \in sizes :
        /\ entry' = "cli"
        /\ IF check_batch_size_rejects(n)
           THEN \* argparse reports the usage error; no instance is built
                /\ bucket' = b
                /\ data_file' = d
                /\ batch_size' = n
                /\ raised' = "ArgumentTypeError"
                /\ pc' = "Failed"
                /\ UNCHANGED <<inputVars, loopVars, self_bucket,
                               self_data_file, self_batch_size, opened,
                               flog, slog>>
           ELSE /\ CallerBody(b, d, n, None, None, Unset)
                /\ UNCHANGED loopVars

Main == MainOver(BatchSizes)

\* caller(bucket, data_file, batch_size) called on a fresh instance
CallerOver(sizes) ==
    /\ pc = "Start"
    /\ \E b \in Buckets, d \in Paths, n \in sizes :
        /\ entry' = "caller"
        /\ CallerBody(b, d, n, None, None, Unset)
        /\ UNCHANGED loopVars

Caller == CallerOver(BatchSizes)

\* delete(bucket, data_file, batch_size) / restore(...): set the fields,
\* then self.caller() with no arguments
ApiOver(sizes) ==
    /\ pc = "Start"
    /\ \E b \in Buckets, d \in Paths, n \in sizes :
        /\ entry' = "api"
        /\ CallerBody("", "", DefaultBatchSize, b, d, <<n>>)
        /\ UNCHANGED loopVars

Api == ApiOver(BatchSizes)

\* one pass of "while True" up to the remote call, or to the break and the
\* two "complete" entries
Loop ==
    /\ pc = "Loop"
    /\ UNCHANGED <<inputVars, entry, bucket, data_file, batch_size,
                   self_bucket, self_data_file, self_batch_size, opened>>
    /\ IF batch_size < 0
       THEN \* islice() refuses a negative stop
            /\ raised' = "ValueError"
            /\ pc' = "Failed"
            /\ UNCHANGED <<loopVars, flog, slog>>
       ELSE LET lines == islice(fs, pos, batch_size)
                parsed == parse(mode, lines)
            IN  /\ pos' = pos + TotalLen(lines)
                /\ group' = lines
                /\ next_lines' = parsed
                /\ response' = Unset
                /\ raised' = None
                /\ IF parsed = <<>>
                   THEN /\ flog' = flog \o complete_log
                        /\ slog' = slog \o complete_log
                        /\ pc' = "Completed"
                        /\ UNCHANGED <<batches, calls>>
                   ELSE /\ batches' = Append(batches, parsed)
                        /\ calls' = Append(calls,
                               [Bucket |-> self_bucket,
                                Objects |-> request_objects(mode, parsed),
                                returned |-> FALSE])
                        /\ pc' = "InCall"
                        /\ UNCHANGED <<flog, slog>>

MarkReturned(cs) == [cs EXCEPT ![Len(cs)].returned = TRUE]

\* the remote call returns a response: the client logs it and returns
RemoteReturn ==
    /\ pc = "InCall"
    /\ \E r \in Responses :
        /\ response' = <<r>>
        /\ flog' = flog \o response_log(r)
    /\ calls' = MarkReturned(calls)
    /\ pc' = "Loop"
    /\ UNCHANGED <<inputVars, entry, bucket, data_file, batch_size,
                   self_bucket, self_data_file, self_batch_size, opened,
                   raised, pos, group, next_lines, batches, slog>>

\* RemoteClientError with the "raise" lost: the error is logged and the
\* loop goes on
RemoteClientErrorSwallowed ==
    /\ pc = "InCall"
    /\ flog' = flog \o << LogEntry("ERROR", "Couldn't delete any") >>
    /\ calls' = MarkReturned(calls)
    /\ pc' = "Loop"
    /\ UNCHANGED <<inputVars, entry, bucket, data_file, batch_size,
                   self_bucket, self_data_file, self_batch_size, opened,
                   raised, pos, group, next_lines, batches, response, slog>>

\* the remote call raises ClientError: logger.exception, then raise; caller
\* catches only FileNotFoundError
RemoteClientError ==
    /\ pc = "InCall"
    /\ flog' = flog \o << LogEntry("ERROR", "Couldn't delete any") >>
    /\ calls' = MarkReturned(calls)
    /\ raised' = "ClientError"
    /\ pc' = "Failed"
    /\ UNCHANGED <<inputVars, entry, bucket, data_file, batch_size,
                   self_bucket, self_data_file, self_batch_size, opened,
                   pos, group, next_lines, batches, response, slog>>

Next ==
    \/ Main
    \/ Caller
    \/ Api
    \/ Loop
    \/ RemoteReturn
    \/ RemoteClientError

Spec == Init /\ [][Next]_vars

\* Runs at the service's limit: files of 1000 and of 1001 lines, read with
\* batch sizes 1000 and 1001.
Repeat(l, k) == [i \in 1 .. k * Len(l) |-> l[((i - 1) % Len(l)) + 1]]
LimitSizes == {MaxBatchSize, MaxBatchSize + 1}
LimitFiles == {Repeat(<<Comma, "a", NL>>, k) : k \in LimitSizes}
LimitInit == InitOver(LimitFiles)
LimitMain == MainOver(LimitSizes)
LimitCaller == CallerOver(LimitSizes)
LimitApi == ApiOver(LimitSizes)
LimitNext ==
    \/ LimitMain
    \/ LimitCaller
    \/ LimitApi
    \/ Loop
    \/ RemoteReturn
    \/ RemoteClientError
LimitSpec == LimitInit /\ [][LimitNext]_vars

\* An instance used twice: caller, and once that run has ended, caller again
\* on the same instance with arguments of its own.
MaxReuseFileLen == 2   \* characters in the data file
MaxReuseBatch == 2     \* batch sizes 1 .. MaxReuseBatch
ReuseSizes == 1 .. MaxReuseBatch
ReuseBuckets == {"bkt", "other"}
ReuseInit == Init /\ Len(fs) <= MaxReuseFileLen
ReuseCaller == CallerOver(ReuseSizes)

\* the second caller(bucket, data_file, batch_size) on the instance: the
\* fields keep what the first invocation left in them, the file is opened
\* anew and the loop starts over
Recall ==
    /\ pc \in {"Completed", "Failed"}
    /\ entry = "caller"
    /\ \E b \in ReuseBuckets, d \in Paths, n \in ReuseSizes :
        /\ entry' = "recall"
        /\ CallerBody(b, d, n, self_bucket, self_data_file, self_batch_size)
        /\ pos' = 0
        /\ group' = <<>>
        /\ next_lines' = <<>>
        /\ batches' = <<>>
        /\ calls' = <<>>
        /\ response' = Unset

ReuseNext ==
    \/ ReuseCaller
    \/ Recall
    \/ Loop
    \/ RemoteReturn
    \/ RemoteClientError
ReuseSpec == ReuseInit /\ [][ReuseNext]_vars

\* The run is one thread that runs to its end: the loop always takes its next
\* pass, and a remote call, being synchronous, comes back (with a response,
\* unless it raises).
FairInit == Init /\ Len(fs) <= MaxFairFileLen
FairSpec ==
    FairInit /\ [][Next]_vars /\ WF_vars(Loop) /\ WF_vars(RemoteReturn)

\* ===================================================================
\* Properties
\* ===================================================================
\* The file as the specification describes it: its lines, counted and cut
\* at the newline characters, independently of the reader above.
EndsLine(f) == f = <<>> \/ f[Len(f)] = NL
\* the lines of f, newlines removed, built from the end of the file backwards
RECURSIVE FileLines(_)
FileLines(f) ==
    IF f = <<>>
    THEN <<>>
    ELSE LET init == SubSeq(f, 1, Len(f) - 1)
             c == f[Len(f)]
             prev == FileLines(init)
         IN  IF c = NL
             THEN IF EndsLine(init) THEN Append(prev, <<>>) ELSE prev
             ELSE IF EndsLine(init)
                  THEN Append(prev, <<c>>)
                  ELSE [prev EXCEPT ![Len(prev)] = Append(@, c)]
NumLines(f) == Len(FileLines(f))

RECURSIVE Flatten(_)
Flatten(ss) == IF ss = <<>> THEN <<>> ELSE Head(ss) \o Flatten(Tail(ss))

Ceil(a, b) == (a + b - 1) \div b
Min(a, b) == IF a <= b THEN a ELSE b
Last(q) == q[Len(q)]
HasComplete(log) == \E i \in 1 .. Len(log) : log[i].msg = "complete"
Running == opened /\ pc \in {"Loop", "InCall", "Completed", "Failed"}

\* C1: in delete mode with batch size n >= 1 the loop produces groups of
\* exactly n lines except possibly the last (1..n lines, and short only at
\* the end of the file); the groups concatenated are a prefix of the file's
\* lines (newlines removed) at every moment, and at completion there are
\* exactly ceil(L/n) groups whose concatenation is the whole line sequence.
C1_BatchingCompleteness ==
    (mode = "delete" /\ Running /\ batch_size >= 1) =>
        LET all == FileLines(fs)
            got == Flatten(batches)
            n == batch_size
        IN  /\ Len(got) <= Len(all)
            /\ got = SubSeq(all, 1, Len(got))
            /\ \A k \in 1 .. Len(batches) :
                /\ Len(batches[k]) \in 1 .. n
                /\ (k < Len(batches) => Len(batches[k]) = n)
            /\ (batches # <<>> /\ Len(Last(batches)) < n
                    => Len(got) = Len(all))
            /\ (pc = "Completed" =>
                    /\ Len(batches) = Ceil(Len(all), n)
                    /\ got = all)

\* three lines read with batch size 2: a full group, then a short last one
C1_Witness ==
    /\ mode = "delete"
    /\ pc = "Completed"
    /\ batch_size = 2
    /\ Len(batches) = 2
    /\ Len(batches[1]) = 2
    /\ Len(batches[2]) = 1

\* C2 (as claimed): in either mode, when the run is Completed with a batch
\* size >= 1, every line of the input file has been read.
C2_CompleteOnlyWhenExhausted ==
    (pc = "Completed" /\ batch_size >= 1) => pos = Len(fs)

\* the targets the k-th group of the file stands for, from the file itself
GroupLines(f, n, k) ==
    SubSeq(FileLines(f), (k - 1) * n + 1, Min(k * n, NumLines(f)))
CommaIdx(l) == {i \in 1 .. Len(l) : l[i] = Comma}
WellFormed(l) == Cardinality(CommaIdx(l)) = 1
TheComma(l) == CHOOSE i \in CommaIdx(l) : TRUE
PairOf(l) ==
    [Key |-> SubSeq(l, 1, TheComma(l) - 1),
     VersionId |-> SubSeq(l, TheComma(l) + 1, Len(l))]
IsSubmittedPair(l) == WellFormed(l) /\ PairOf(l).VersionId # <<>>
ExpectedObjects(m, f, n, k) ==
    LET ls == GroupLines(f, n, k)
    IN  IF m = "delete"
        THEN [i \in 1 .. Len(ls) |-> [Key |-> ls[i]]]
        ELSE LET keep == SelectSeq(ls, IsSubmittedPair)
             IN  [i \in 1 .. Len(keep) |-> PairOf(keep[i])]

\* C3: the k-th remote call carries the targets of the k-th group of the
\* file; every call but the last has returned, and the last one is open
\* only while the run waits in it; in delete mode there is exactly one call
\* per group read, ceil(L/n) of them at completion.
C3_OneCallPerBatchInOrder ==
    (Running /\ batch_size >= 1) =>
        /\ \A k \in 1 .. Len(calls) :
            /\ calls[k].Objects =
                   ExpectedObjects(mode, fs, batch_size, k)
            /\ (k < Len(calls) => calls[k].returned)
        /\ (calls # <<>> => (Last(calls).returned <=> pc # "InCall"))
        /\ (calls = <<>> => pc # "InCall")
        /\ (mode = "delete" =>
                /\ Len(calls) = Len(batches)
                /\ (pc = "Completed" =>
                        Len(calls) = Ceil(NumLines(fs), batch_size)))

\* the second call is in flight after the first has returned
C3_Witness ==
    /\ mode = "delete"
    /\ pc = "InCall"
    /\ Len(calls) = 2
    /\ calls[1].returned
    /\ ~calls[2].returned
    /\ calls[1].Objects # calls[2].Objects

Count(log, level) == Cardinality({i \in 1 .. Len(log) : log[i].level = level})
AppendedError(old, new) ==
    Len(new) = Len(old) + 1 /\ Last(new).level = "ERROR"

\* C4: a remote call that fails as a whole (the client logs at error
\* severity while the call is open) raises ClientError to the caller and
\* leaves the run Failed; in that state the error entry is the last entry of
\* the log, neither sink holds the "complete" marker, and the run takes no
\* further step, so no later batch is read or submitted.
C4_RemoteFailureIsFatal ==
    /\ [](raised = "ClientError" =>
            /\ pc = "Failed"
            /\ flog # <<>> /\ Last(flog).level = "ERROR"
            /\ ~HasComplete(flog) /\ ~HasComplete(slog)
            /\ calls # <<>> /\ Len(calls) = Len(batches))
    /\ [][(pc = "InCall" /\ AppendedError(flog, flog'))
            => (raised' = "ClientError" /\ pc' = "Failed"
                /\ calls' = MarkReturned(calls))]_vars
    /\ [][raised # "ClientError"]_vars

\* the first call failed while lines of the file were still unread
C4_Witness ==
    /\ raised = "ClientError"
    /\ Len(calls) = 1
    /\ pos < Len(fs)

\* C5: when the run is past its configuration checks and the source path
\* does not exist, the run is Failed with FileNotFoundError raised, the file
\* was never opened, nothing was read, no remote call was issued, the only
\* log entry is one error entry, and no "complete" marker exists.
C5_MissingFileIsFatal ==
    (pc # "Start" /\ data_file # "keys.txt"
        /\ raised \notin {"ValueError", "ArgumentTypeError"}) =>
        /\ pc = "Failed"
        /\ raised = "FileNotFoundError"
        /\ ~opened
        /\ pos = 0 /\ batches = <<>> /\ calls = <<>>
        /\ Len(flog) = 1 /\ flog[1].level = "ERROR"
        /\ ~HasComplete(flog) /\ ~HasComplete(slog)

\* the command line names a file that is not there
C5_Witness ==
    /\ entry = "cli"
    /\ data_file = "missing.txt"
    /\ raised = "FileNotFoundError"

C7_NoEmptyVersionSubmitted ==
    mode = "restore" =>
        \A k \in 1 .. Len(calls) :
            \A i \in 1 .. Len(calls[k].Objects) :
                /\ calls[k].Objects[i].VersionId # <<>>
                /\ calls[k].Objects[i].VersionId # <<NL>>

\* a call was issued for a group that held a pair with an empty versionId
C7_Witness ==
    /\ mode = "restore"
    /\ calls # <<>>
    /\ \E i \in 1 .. Len(batches[1]) : batches[1][i].VersionId = <<>>
    /\ Len(calls[1].Objects) >= 1
    /\ Len(calls[1].Objects) < Len(batches[1])

StripNL(l) == IF l # <<>> /\ Last(l) = NL THEN SubSeq(l, 1, Len(l) - 1) ELSE l
ExpectedPairs(ls) ==
    LET keep == SelectSeq(ls, WellFormed)
    IN  [i \in 1 .. Len(keep) |-> PairOf(StripNL(keep[i]))]

\* C8: in restore mode, after a group is read, next_lines holds exactly the
\* lines of the group with one comma, in the group's order, each as (text
\* before the comma, text after it without the newline); lines with zero or
\* several commas are left out and nothing is raised by reading the group.
C8_MalformedLinesDropped ==
    (mode = "restore" /\ Running /\ batch_size >= 0
        /\ pc \in {"InCall", "Completed"}) =>
        /\ next_lines = ExpectedPairs(group)
        /\ raised = "None"

\* a malformed line followed by a well-formed one in the same group
C8_Witness ==
    /\ mode = "restore"
    /\ pc = "InCall"
    /\ Len(group) >= 2
    /\ ~WellFormed(group[1])
    /\ WellFormed(group[2])
    /\ Len(next_lines) = Len(group) - 1

\* the batch size, bucket and path the run was configured with
ConfBatchSize == IF entry = "api" THEN Head(self_batch_size) ELSE batch_size
ConfBucket == IF entry = "api" THEN self_bucket ELSE bucket
ConfDataFile == IF entry = "api" THEN self_data_file ELSE data_file

\* C9 (as claimed): a run whose batch size is outside 1..1000 never opens
\* the source file, issues no remote call and never emits the "complete"
\* marker.
C9_BatchSizeOutOfRangeRejected ==
    (pc # "Start" /\ ConfBatchSize \notin 1 .. MaxBatchSize) =>
        /\ ~opened
        /\ calls = <<>>
        /\ ~HasComplete(flog) /\ ~HasComplete(slog)

\* C10 (as claimed): a run configured with an empty bucket or an empty
\* source path ends with an error raised, the file never opened, no log
\* entry written to either sink and no remote call issued.
C10_EmptyConfigRejected ==
    (pc # "Start" /\ (ConfBucket = "" \/ ConfDataFile = "")) =>
        /\ raised # "None"
        /\ ~opened
        /\ flog = <<>> /\ slog = <<>>
        /\ calls = <<>>

\* caller was given a non-empty bucket, the existing file and a batch size
\* within 1 .. 1000
ValidRun ==
    /\ pc # "Start"
    /\ raised # "ArgumentTypeError"
    /\ bucket # ""
    /\ data_file = "keys.txt"
    /\ batch_size \in 1 .. MaxBatchSize
Markers(log) == Cardinality({i \in 1 .. Len(log) : log[i].msg = "complete"})
AllReturned == \A k \in 1 .. Len(calls) : calls[k].returned

\* C11: a run with a valid configuration eventually is Completed unless a
\* remote call raised ClientError; when Completed, the "complete" marker is
\* exactly once in the file log and exactly once on stdout, each as the last
\* entry, and every remote call has returned; before that neither sink
\* holds the marker.
C11_TerminatesCompleted ==
    /\ []((ValidRun /\ pc = "Completed") =>
            /\ Markers(flog) = 1 /\ Markers(slog) = 1
            /\ Last(flog).msg = "complete" /\ Last(slog).msg = "complete"
            /\ AllReturned)
    /\ []((ValidRun /\ pc # "Completed") =>
            (Markers(flog) = 0 /\ Markers(slog) = 0))
    /\ (ValidRun ~> (pc = "Completed" \/ raised = "ClientError"))

\* a valid run of two remote calls that is Completed
C11_Witness ==
    /\ ValidRun
    /\ pc = "Completed"
    /\ Len(calls) = 2
    /\ AllReturned
    /\ Markers(flog) = 1
    /\ Markers(slog) = 1

\* C12 (as claimed): delete(bucket, data_file, batch_size) / restore(...) on
\* an existing data_file behaves as caller(bucket, data_file, batch_size) on
\* a fresh instance does: the file is opened and no FileNotFoundError is
\* raised, every remote call goes to the given bucket with the targets of
\* the file's k-th group of batch_size lines, and a valid run that has
\* stopped without ClientError is Completed.
C12_ApiBehavesAsCaller ==
    (entry = "api" /\ pc # "Start" /\ ConfDataFile = "keys.txt") =>
        /\ opened
        /\ raised # "FileNotFoundError"
        /\ \A k \in 1 .. Len(calls) :
            /\ calls[k].Bucket = ConfBucket
            /\ (ConfBatchSize >= 1 =>
                    calls[k].Objects =
                        ExpectedObjects(mode, fs, ConfBatchSize, k))
        /\ ((ConfBucket # "" /\ ConfBatchSize \in 1 .. MaxBatchSize
                /\ pc \notin {"Loop", "InCall"} /\ raised # "ClientError")
               => pc = "Completed")

CountMsg(log, msg) == Cardinality({i \in 1 .. Len(log) : log[i].msg = msg})
Logged(old, new, msg) == CountMsg(new, msg) > CountMsg(old, msg)

\* C13 (as claimed): the step that receives a response adds the "deleted"
\* info entry if and only if the response's Deleted list is non-empty, and
\* the "could not delete" warning entry if and only if its Errors list is
\* non-empty; a list that is present but empty adds no entry.
C13_LogsOnlyNonEmptyLists ==
    [][(pc = "InCall" /\ response' # Unset) =>
        /\ (Logged(flog, flog', "Deleted objects")
                <=> Head(response').Deleted = "items")
        /\ (Logged(flog, flog', "Could not delete")
                <=> Head(response').Errors = "items")]_vars

\* C13 (amended): the step that receives a response adds the "deleted" info
\* entry if and only if "Deleted" is a key of the response, and the "could
\* not delete" warning entry if and only if "Errors" is: a non-empty list
\* is logged, an absent one is not, and a list present but empty is logged.
C13_LogsPresentLists ==
    [][(pc = "InCall" /\ response' # Unset) =>
        /\ (Logged(flog, flog', "Deleted objects")
                <=> Head(response').Deleted # "absent")
        /\ (Logged(flog, flog', "Could not delete")
                <=> Head(response').Errors # "absent")]_vars

\* a response whose two lists are present but empty has been logged twice
C13_Witness ==
    /\ pc = "Loop"
    /\ response # Unset
    /\ Head(response).Deleted = "empty"
    /\ Head(response).Errors = "empty"
    /\ Len(flog) >= 2
    /\ flog[Len(flog) - 1].msg = "Deleted objects"
    /\ Last(flog).msg = "Could not delete"

\* C14 (as claimed): in a run started through caller, in either mode, every
\* remote call carries at most min(batch size, 1000) targets.
C14_CallWithinServiceLimit ==
    (entry \in {"cli", "caller"}) =>
        \A k \in 1 .. Len(calls) :
            Len(calls[k].Objects) <= Min(batch_size, MaxBatchSize)

\* the keys submitted so far, call after call
RECURSIVE SubmittedKeys(_)
SubmittedKeys(cs) ==
    IF cs = <<>>
    THEN <<>>
    ELSE [i \in 1 .. Len(Head(cs).Objects) |-> Head(cs).Objects[i].Key]
         \o SubmittedKeys(Tail(cs))
IsEmptyKey(k) == k = <<>>
LinesRead == FileLines(SubSeq(fs, 1, pos))

\* C15: in delete mode nothing is validated or filtered: the keys submitted
\* so far are exactly the lines read so far, each without its newline, in
\* order; a blank line read is submitted as the empty key, so as many empty
\* keys are submitted as blank lines were read; a completed run has
\* submitted every line of the file.
C15_PlainKeysPassedThrough ==
    (mode = "delete" /\ Running /\ batch_size >= 1) =>
        LET keys == SubmittedKeys(calls)
        IN  /\ keys = LinesRead
            /\ Len(SelectSeq(keys, IsEmptyKey))
                   = Len(SelectSeq(LinesRead, IsEmptyKey))
            /\ (pc = "Completed" => keys = FileLines(fs))

\* a call of two keys, one of them the empty key of a blank line
C15_Witness ==
    /\ mode = "delete"
    /\ pc = "Completed"
    /\ calls # <<>>
    /\ Len(calls[1].Objects) = 2
    /\ \E i \in 1 .. 2 : calls[1].Objects[i].Key = <<>>
    /\ \E i \in 1 .. 2 : calls[1].Objects[i].Key # <<>>

\* C16 (as claimed): no remote call is issued with an empty target list, in
\* either mode.
C16_NoEmptyCall ==
    \A k \in 1 .. Len(calls) : calls[k].Objects # <<>>

\* C17 (as claimed): in every invocation of caller on an instance, each
\* remote call targets the bucket passed to that invocation, and the file
\* opened and the batch size used for grouping are the ones recorded in
\* self.data_file and self.batch_size.
C17_InvocationUsesItsConfig ==
    (entry \in {"caller", "recall"} /\ pc # "Start") =>
        /\ \A k \in 1 .. Len(calls) : calls[k].Bucket = bucket
        /\ (opened =>
                /\ data_file = self_data_file
                /\ self_batch_size = <<batch_size>>)

====
